---- MODULE Spec2Model ----
(***************************************************************************)
(* A model of imperio's audio pipeline:                                    *)
(*   - vad_collector        (src/imperio/audio/utils.py)                   *)
(*   - AudioStreamer        (src/imperio/Speech/SpeechRecognizer.py)       *)
(*   - SpeechRecognizer._handle_responses (same file)                      *)
(*   - SpeechRecognizer.transcribe        (same file)                      *)
(*   - audio_int2float, audio_float2int   (src/imperio/audio/utils.py)     *)
(* The components share no state in the source, so each has its own        *)
(* specification (SpecVad, SpecVadConfig, SpecStream / FairSpecStream,     *)
(* SpecResp, SpecTranscribe, SpecConv) over the same variables; the        *)
(* variables of the other components stay as constructed.                  *)
(***************************************************************************)
EXTENDS Integers, Sequences, FiniteSets, TLC

VARIABLES
    \* ---- vad_collector ----
    vcfg,           \* the call's parameters and the bounds of its input
    ring_buff,      \* deque(maxlen=num_padding_frames) of [f, s]
    triggered,      \* False = SILENT, True = VOICED
    voiced_frames,  \* list of frames
    vad_out,        \* everything the generator has yielded, in order
    vad_pc,         \* where the generator is suspended
    nread,          \* frames taken from the streamer so far
    cls,            \* history: is_speech of every frame taken
    nVS,            \* history: number of VOICED -> SILENT transitions
    silentFrom,     \* history: nread when the engine was last SILENT with an empty ring
    segFrom,        \* history: number of the oldest frame in the ring at the last SILENT -> VOICED
    \* ---- AudioStreamer ----
    own_pc,         \* the owning thread: __enter__ / __exit__ position
    dev,            \* the audio device stream
    closed,         \* self.closed
    buff,           \* self._buff, the queue.Queue
    gen_pc,         \* the stream() generator's position
    data,           \* stream()'s local list
    chunks,         \* everything stream() has yielded, in order
    npushed,        \* number of _fill_buffer callbacks so far
    exitCalls,      \* history: completed __exit__ calls
    sentinels,      \* history: number of put(None)
    pull,           \* history: the pull (next()) in progress or last finished
    eos,            \* history: why stream() returned
    \* ---- _handle_responses ----
    has_batcher,    \* self._text_batcher is configured
    response,       \* the response handled last
    entered,        \* history: it passed the test of lines 178-180
    effects,        \* the calls made while handling it, in order
    nhandled,       \* responses handled so far
    \* ---- SpeechRecognizer.transcribe ----
    tr_pc,          \* where a transcribe() call is ("idle": none is running)
    \* ---- audio_int2float / audio_float2int ----
    conv            \* a sample on its way through the two conversions

vadVars == <<vcfg, ring_buff, triggered, voiced_frames, vad_out, vad_pc, nread,
             cls, nVS, silentFrom, segFrom>>
streamVars == <<own_pc, dev, closed, buff, gen_pc, data, chunks, npushed,
                exitCalls, sentinels, pull, eos>>
respVars == <<has_batcher, response, entered, effects, nhandled>>
trVars == <<tr_pc>>
convVars == <<conv>>
vars == <<vadVars, streamVars, respVars, trVars, convVars>>

(***************************************************************************)
(* Bounds of the model.                                                    *)
(***************************************************************************)
\* frames fed to vad_collector when the ring is small (any classification)
MaxFrames == 10
\* frames fed to vad_collector with the default parameters
MaxFramesDefault == 42
\* changes of the classifier's answer between consecutive frames, default parameters
MaxFlips == 3
\* _fill_buffer callbacks of the audio device
MaxPush == 4
\* next() calls on the stream() generator
MaxPulls == 5
\* __exit__ calls on one AudioStreamer
MaxExitCalls == 2
\* responses of one recognition stream
MaxResponses == 2

(***************************************************************************)
(* Values shared by the components.                                        *)
(***************************************************************************)
\* A bytes object or Python's None.
None == [none |-> TRUE, bytes |-> <<>>]
Some(b) == [none |-> FALSE, bytes |-> b]

\* The i-th frame of a source: one distinguishable byte.
Frame(i) == <<i>>

RECURSIVE Join(_)
\* b"".join(list of bytes)
Join(frames) ==
    IF frames = <<>> THEN <<>> ELSE Head(frames) \o Join(Tail(frames))

\* The frames lo..hi of a source, as a list.
FrameRun(lo, hi) == [k \in 1..(hi - lo + 1) |-> Frame(lo + k - 1)]

(***************************************************************************)
(* vad_collector (src/imperio/audio/utils.py, lines 60-108).               *)
(*                                                                         *)
(* act_inact_ratio is a float in the source; the model keeps it as the     *)
(* fraction num/den and compares count * den > num * maxlen.  For the      *)
(* parameters used below the double product is exact where it is an        *)
(* integer (0.9 * 20 = 18.0, 0.5 * 2 = 1.0) and is not an integer          *)
(* otherwise (0.9 * 3 = 2.7), so both comparisons agree.                   *)
(***************************************************************************)
\* default num_padding_frames
num_padding_frames == 20
\* default act_inact_ratio = 0.9 = 9/10
act_inact_ratio_num == 9
act_inact_ratio_den == 10

\* A call of vad_collector: its parameters, and the bounds put on its input.
DefaultScenario ==
    [N |-> num_padding_frames, num |-> act_inact_ratio_num,
     den |-> act_inact_ratio_den, frames |-> MaxFramesDefault, flips |-> MaxFlips]

VadScenarios ==
    { DefaultScenario,
      [N |-> 2, num |-> 1, den |-> 2, frames |-> MaxFrames, flips |-> MaxFrames],
      [N |-> 3, num |-> act_inact_ratio_num, den |-> act_inact_ratio_den,
       frames |-> MaxFrames, flips |-> MaxFrames] }

\* Variant of DequeAppend: a deque without maxlen.
DequeAppendUnbounded(d, x, maxlen) == Append(d, x)
\* deque(maxlen=maxlen).append(x): the oldest entry leaves a full deque.
DequeAppend(d, x, maxlen) ==
    IF maxlen = 0 THEN d
    ELSE IF Len(d) = maxlen THEN Append(Tail(d), x)
    ELSE Append(d, x)

\* len([f for f, speech in ring_buff if speech])        (b = TRUE)
\* len([f for f, speech in ring_buff if not speech])    (b = FALSE)
CountSpeech(rb, b) == Cardinality({k \in 1..Len(rb) : rb[k].s = b})

\* Variant of Exceeds: >= in place of >.
ExceedsAtLeast(count, cfg) == count * cfg.den >= cfg.num * cfg.N
\* count > (act_inact_ratio * ring_buff.maxlen)
Exceeds(count, cfg) == count * cfg.den > cfg.num * cfg.N

\* (f for f, s in ring_buff)
RingFrames(rb) == [k \in 1..Len(rb) |-> rb[k].f]

\* Changes of the classifier's answer between consecutive frames.
Flips(c) == Cardinality({k \in 1..(Len(c) - 1) : c[k] # c[k + 1]})

VadInit(scenarios) ==
    /\ vcfg \in scenarios
    /\ ring_buff = <<>>
    /\ triggered = FALSE
    /\ voiced_frames = <<>>
    /\ vad_out = <<>>
    /\ vad_pc = "loop"
    /\ nread = 0
    /\ cls = <<>>
    /\ nVS = 0
    /\ silentFrom = 0
    /\ segFrom = 0

\* Variant of VadSilentFrame: the threshold multiplies the ring's occupancy.
VadSilentFrameOccupancy(frame, is_speech) ==
    LET rb == DequeAppend(ring_buff, [f |-> frame, s |-> is_speech], vcfg.N)
        num_voiced == CountSpeech(rb, TRUE)
    IN  /\ IF num_voiced * vcfg.den > vcfg.num * Len(rb)
           THEN /\ triggered' = TRUE
                /\ voiced_frames' = voiced_frames \o RingFrames(rb)
                /\ ring_buff' = <<>>
           ELSE /\ ring_buff' = rb
                /\ UNCHANGED <<triggered, voiced_frames>>
        /\ UNCHANGED <<vad_out, vad_pc>>

\* Lines 82-89: the loop body while not triggered.
VadSilentFrame(frame, is_speech) ==
    LET rb == DequeAppend(ring_buff, [f |-> frame, s |-> is_speech], vcfg.N)
        num_voiced == CountSpeech(rb, TRUE)
    IN  /\ IF Exceeds(num_voiced, vcfg)
           THEN /\ triggered' = TRUE
                /\ voiced_frames' = voiced_frames \o RingFrames(rb)
                /\ ring_buff' = <<>>
           ELSE /\ ring_buff' = rb
                /\ UNCHANGED <<triggered, voiced_frames>>
        /\ UNCHANGED <<vad_out, vad_pc>>

\* Lines 91-100: the loop body while triggered, up to the first yield.
VadVoicedFrame(frame, is_speech) ==
    LET vf == Append(voiced_frames, frame)
        rb == DequeAppend(ring_buff, [f |-> frame, s |-> is_speech], vcfg.N)
        num_unvoiced == CountSpeech(rb, FALSE)
    IN  /\ voiced_frames' = vf
        /\ ring_buff' = rb
        /\ IF Exceeds(num_unvoiced, vcfg)
           THEN /\ triggered' = FALSE
                /\ vad_out' = Append(vad_out, Some(Join(vf)))
                /\ vad_pc' = "yielded_segment"
           ELSE UNCHANGED <<triggered, vad_out, vad_pc>>

\* Lines 77-100: the generator takes the next frame of the streamer and
\* classifies it (vad.is_speech is external: either answer).
VadFrame ==
    /\ vad_pc = "loop"
    /\ nread < vcfg.frames
    /\ \E is_speech \in BOOLEAN :
          /\ Flips(Append(cls, is_speech)) <= vcfg.flips
          /\ cls' = Append(cls, is_speech)
          /\ IF ~triggered
             THEN VadSilentFrame(Frame(nread + 1), is_speech)
             ELSE VadVoicedFrame(Frame(nread + 1), is_speech)
    /\ nread' = nread + 1
    /\ nVS' = IF triggered /\ ~triggered' THEN nVS + 1 ELSE nVS
    /\ segFrom' = IF ~triggered /\ triggered'
                  THEN nread + 1 - (IF Len(ring_buff) < vcfg.N THEN Len(ring_buff)
                                    ELSE vcfg.N - 1)
                  ELSE segFrom
    /\ UNCHANGED <<vcfg, silentFrom>>

\* Variant of VadYieldNone: the marker is not yielded.
VadSkipNone ==
    /\ vad_pc = "yielded_segment"
    /\ vad_pc' = "yielded_none"
    /\ UNCHANGED <<vcfg, ring_buff, triggered, voiced_frames, vad_out, nread, cls,
                   nVS, silentFrom, segFrom>>

\* Line 105: resumed after the segment, the generator yields None.
VadYieldNone ==
    /\ vad_pc = "yielded_segment"
    /\ vad_out' = Append(vad_out, None)
    /\ vad_pc' = "yielded_none"
    /\ UNCHANGED <<vcfg, ring_buff, triggered, voiced_frames, nread, cls, nVS,
                   silentFrom, segFrom>>

\* Variant of VadClear: voiced_frames is not reset.
VadClearRingOnly ==
    /\ vad_pc = "yielded_none"
    /\ ring_buff' = <<>>
    /\ vad_pc' = "loop"
    /\ silentFrom' = nread
    /\ UNCHANGED <<vcfg, triggered, voiced_frames, vad_out, nread, cls, nVS, segFrom>>

\* Lines 107-108: resumed after None, the generator clears its buffers.
VadClear ==
    /\ vad_pc = "yielded_none"
    /\ ring_buff' = <<>>
    /\ voiced_frames' = <<>>
    /\ vad_pc' = "loop"
    /\ silentFrom' = nread
    /\ UNCHANGED <<vcfg, triggered, vad_out, nread, cls, nVS, segFrom>>

\* Variant of VadSourceEnd: the segment under way is yielded before the
\* generator returns.
VadSourceEndFlush ==
    /\ vad_pc = "loop"
    /\ vad_pc' = "done"
    /\ vad_out' = IF triggered THEN Append(vad_out, Some(Join(voiced_frames)))
                  ELSE vad_out
    /\ UNCHANGED <<vcfg, ring_buff, triggered, voiced_frames, nread,
                   cls, nVS, silentFrom, segFrom>>

\* Line 77: the streamer is exhausted, the generator returns.
VadSourceEnd ==
    /\ vad_pc = "loop"
    /\ vad_pc' = "done"
    /\ UNCHANGED <<vcfg, ring_buff, triggered, voiced_frames, vad_out, nread,
                   cls, nVS, silentFrom, segFrom>>

(***************************************************************************)
(* AudioStreamer (src/imperio/Speech/SpeechRecognizer.py, lines 22-88).    *)
(*                                                                         *)
(* Three threads touch the object: the owner (__enter__, __exit__), the    *)
(* audio device's callback thread (_fill_buffer) and the consumer that     *)
(* iterates stream().  Every access to self._buff or self.closed is one    *)
(* step.  The device calls its callback only while its stream is running   *)
(* (from open() until stop_stream()).                                      *)
(***************************************************************************)
\* Variant of QueuePut: a LIFO queue.
QueuePutFront(q, x) == <<x>> \o q

\* queue.Queue.put(x)
QueuePut(q, x) == Append(q, x)

\* queue.Queue.get(): the item taken, and the queue left
QueueFront(q) == Head(q)
QueueRest(q) == Tail(q)

StreamInit ==
    /\ own_pc = "init"
    /\ dev = "none"
    /\ closed = TRUE
    /\ buff = <<>>
    /\ gen_pc = "created"
    /\ data = <<>>
    /\ chunks = <<>>
    /\ npushed = 0
    /\ exitCalls = 0
    /\ sentinels = 0
    /\ pull = [n |-> 0, afterClose |-> FALSE, blocked |-> FALSE, state |-> "idle",
               gets |-> 0]
    /\ eos = "no"

\* Lines 35-48: __enter__ opens the device stream, which starts at once.
EnterOpen ==
    /\ own_pc = "init"
    /\ dev' = "running"
    /\ own_pc' = "opened"
    /\ UNCHANGED <<closed, buff, gen_pc, data, chunks, npushed, exitCalls,
                   sentinels, pull, eos>>

\* Lines 50-52: __enter__ marks the streamer open and returns.
EnterDone ==
    /\ own_pc = "opened"
    /\ closed' = FALSE
    /\ own_pc' = "entered"
    /\ UNCHANGED <<dev, buff, gen_pc, data, chunks, npushed, exitCalls,
                   sentinels, pull, eos>>

\* Lines 55-56: __exit__ is called; it stops and closes the device stream.
\* Nothing in __exit__ tests whether it ran before: a repeated call runs the
\* same lines again (on a stream that is already stopped and closed).
ExitStop ==
    /\ \/ own_pc = "entered"
       \/ own_pc = "exited" /\ exitCalls < MaxExitCalls
    /\ dev' = IF dev = "running" THEN "closed" ELSE dev
    /\ own_pc' = "exit_stopped"
    /\ pull' = [pull EXCEPT !.blocked = @ \/ (gen_pc = "get" /\ buff = <<>>)]
    /\ UNCHANGED <<closed, buff, gen_pc, data, chunks, npushed, exitCalls,
                   sentinels, eos>>

\* Line 57: self.closed = True
ExitSetClosed ==
    /\ own_pc = "exit_stopped"
    /\ closed' = TRUE
    /\ own_pc' = "exit_flagged"
    /\ UNCHANGED <<dev, buff, gen_pc, data, chunks, npushed, exitCalls,
                   sentinels, pull, eos>>

\* Variant of ExitPutNone: no sentinel is enqueued.
ExitSkipNone ==
    /\ own_pc = "exit_flagged"
    /\ own_pc' = "exit_put"
    /\ UNCHANGED <<dev, closed, buff, gen_pc, data, chunks, npushed, exitCalls,
                   sentinels, pull, eos>>

\* Line 60: self._buff.put(None)
ExitPutNone ==
    /\ own_pc = "exit_flagged"
    /\ buff' = QueuePut(buff, None)
    /\ sentinels' = sentinels + 1
    /\ own_pc' = "exit_put"
    /\ UNCHANGED <<dev, closed, gen_pc, data, chunks, npushed, exitCalls, pull, eos>>

\* Line 61: self._audio_interface.terminate(); __exit__ returns.
ExitTerminate ==
    /\ own_pc = "exit_put"
    /\ dev' = "terminated"
    /\ exitCalls' = exitCalls + 1
    /\ own_pc' = "exited"
    /\ UNCHANGED <<closed, buff, gen_pc, data, chunks, npushed, sentinels, pull, eos>>

\* Lines 63-66: the device's callback thread delivers the next frame.
FillBuffer ==
    /\ dev = "running"
    /\ npushed < MaxPush
    /\ buff' = QueuePut(buff, Some(Frame(npushed + 1)))
    /\ npushed' = npushed + 1
    /\ UNCHANGED <<own_pc, dev, closed, gen_pc, data, chunks, exitCalls,
                   sentinels, pull, eos>>

\* The first close() has completed: closed is set and the sentinel is queued.
CloseCompleted == sentinels >= 1

\* The consumer calls next() on the generator, which (re)enters the loop.
PullStart ==
    /\ gen_pc \in {"created", "yielded"}
    /\ pull.n < MaxPulls
    /\ gen_pc' = "while"
    /\ pull' = [n |-> pull.n + 1, afterClose |-> CloseCompleted,
                blocked |-> FALSE, state |-> "running", gets |-> 0]
    /\ UNCHANGED <<own_pc, dev, closed, buff, data, chunks, npushed, exitCalls,
                   sentinels, eos>>

\* The consumer calls next() on the generator after it returned: StopIteration.
PullReturned ==
    /\ gen_pc = "returned"
    /\ pull.n < MaxPulls
    /\ pull' = [n |-> pull.n + 1, afterClose |-> CloseCompleted,
                blocked |-> FALSE, state |-> "eos", gets |-> 0]
    /\ UNCHANGED <<own_pc, dev, closed, buff, gen_pc, data, chunks, npushed,
                   exitCalls, sentinels, eos>>

\* Variant of StreamWhile: the loop does not test self.closed.
StreamWhileTrue ==
    /\ gen_pc = "while"
    /\ gen_pc' = "get"
    /\ UNCHANGED <<own_pc, dev, closed, buff, data, chunks, npushed, exitCalls,
                   sentinels, pull, eos>>

\* Line 69: while not self.closed
StreamWhile ==
    /\ gen_pc = "while"
    /\ IF closed
       THEN /\ gen_pc' = "returned"
            /\ pull' = [pull EXCEPT !.state = "eos"]
            /\ eos' = IF own_pc \in {"init", "opened"} THEN "unopened" ELSE "closed"
       ELSE /\ gen_pc' = "get"
            /\ UNCHANGED <<pull, eos>>
    /\ UNCHANGED <<own_pc, dev, closed, buff, data, chunks, npushed, exitCalls,
                   sentinels>>

\* Lines 73-76: chunk = self._buff.get(), blocking while the queue is empty.
StreamGet ==
    /\ gen_pc = "get"
    /\ buff # <<>>
    /\ buff' = QueueRest(buff)
    /\ IF QueueFront(buff).none
       THEN /\ gen_pc' = "returned"
            /\ pull' = [pull EXCEPT !.state = "eos", !.gets = @ + 1]
            /\ eos' = "sentinel"
            /\ UNCHANGED data
       ELSE /\ gen_pc' = "drain"
            /\ data' = <<QueueFront(buff).bytes>>
            /\ pull' = [pull EXCEPT !.gets = @ + 1]
            /\ UNCHANGED eos
    /\ UNCHANGED <<own_pc, dev, closed, chunks, npushed, exitCalls, sentinels>>

\* Variant of StreamDrain: the generator yields the first frame without
\* reading the queue again.
StreamYieldFirst ==
    /\ gen_pc = "drain"
    /\ chunks' = Append(chunks, Join(data))
    /\ gen_pc' = "yielded"
    /\ pull' = [pull EXCEPT !.state = "chunk"]
    /\ UNCHANGED <<own_pc, dev, closed, buff, data, npushed, exitCalls, sentinels, eos>>

\* Lines 79-88: one self._buff.get(block=False); on queue.Empty the loop
\* breaks and the generator yields b"".join(data).
StreamDrain ==
    /\ gen_pc = "drain"
    /\ IF buff = <<>>
       THEN /\ chunks' = Append(chunks, Join(data))
            /\ gen_pc' = "yielded"
            /\ pull' = [pull EXCEPT !.state = "chunk"]
            /\ UNCHANGED <<buff, data, eos>>
       ELSE /\ buff' = QueueRest(buff)
            /\ IF QueueFront(buff).none
               THEN /\ gen_pc' = "returned"
                    /\ pull' = [pull EXCEPT !.state = "eos", !.gets = @ + 1]
                    /\ eos' = "sentinel"
                    /\ UNCHANGED <<data, chunks>>
               ELSE /\ data' = Append(data, QueueFront(buff).bytes)
                    /\ pull' = [pull EXCEPT !.gets = @ + 1]
                    /\ UNCHANGED <<gen_pc, chunks, eos>>
    /\ UNCHANGED <<own_pc, dev, closed, npushed, exitCalls, sentinels>>

ConsumerStep == StreamWhile \/ StreamGet \/ StreamDrain
ExitStep == ExitSetClosed \/ ExitPutNone \/ ExitTerminate

(***************************************************************************)
(* SpeechRecognizer._handle_responses (SpeechRecognizer.py, lines 175-198).*)
(*                                                                         *)
(* A response carries 0..2 results; a result carries is_final and 0..1     *)
(* alternatives; an alternative carries a transcript and a confidence (in  *)
(* thousandths).  The batcher and the batch processor are external: the    *)
(* model records the calls made to them and lets get_batch return any      *)
(* batch.  The handler keeps nothing from one response to the next.        *)
(***************************************************************************)
Texts == {"hello", ""}
Confidences == {870, 295}
Alternatives == [transcript : Texts, confidence : Confidences]
AlternativeLists == {<<>>} \cup {<<a>> : a \in Alternatives}
Results == [is_final : BOOLEAN, alternatives : AlternativeLists]
ResultLists ==
    {<<>>} \cup {<<r>> : r \in Results} \cup {<<r, q>> : r \in Results, q \in Results}
Responses == [results : ResultLists]

\* A batch: a list of texts, or None.
NoBatch == [none |-> TRUE, items |-> <<>>]
Batch(items) == [none |-> FALSE, items |-> items]

\* What an external get_batch(text, reset) may return.
BatchReturns(text) == {NoBatch, Batch(<<>>), Batch(<<text>>), Batch(<<"earlier", text>>)}

\* `if batch:` -- None and the empty list are false.
Truthy(batch) == ~batch.none /\ batch.items # <<>>

\* int(100 * confidence), the confidence in thousandths
Confidence(c) == (100 * c) \div 1000

\* Variant of ShouldProcess: any response with a result passes.
ShouldProcessNonEmpty(resp) == resp.results # <<>>

\* Lines 178-180: response.results and (len(response.results) > 1 or
\* response.results[0].is_final)
ShouldProcess(resp) ==
    /\ resp.results # <<>>
    /\ \/ Len(resp.results) > 1
       \/ resp.results[1].is_final

\* One recorded call: its arguments and what it returned (NoBatch where the
\* result is not used).
Call(op, args, reset, ret) == [op |-> op, args |-> args, reset |-> reset, ret |-> ret]

\* Lines 188-191: the call to the batcher, if one is configured; ret is what
\* get_batch returns.
BatcherCalls(text, is_final, ret) ==
    IF has_batcher THEN <<Call("get_batch", <<text>>, is_final, ret)>> ELSE <<>>

\* Variant of BatchOf: without a batcher, every result makes a batch.
BatchOfAlways(text, is_final, ret) ==
    IF has_batcher THEN ret ELSE Batch(<<text>>)

\* Lines 187-193: the batch of a result.
BatchOf(text, is_final, ret) ==
    IF has_batcher THEN ret
    ELSE IF is_final THEN Batch(<<text>>)
    ELSE NoBatch

\* Variant of ProcessCalls: `if batch is not None` in place of `if batch`.
ProcessCallsUnguarded(batch, is_final) ==
    IF batch.none THEN <<>> ELSE <<Call("process", batch.items, is_final, NoBatch)>>

\* Lines 194-195: if batch: self._text_batch_processor.process(batch, reset=...)
ProcessCalls(batch, is_final) ==
    IF Truthy(batch) THEN <<Call("process", batch.items, is_final, NoBatch)>> ELSE <<>>

\* Lines 197-198: if result.is_final: print("--Final--\n", text, "\n---\n")
PrintCalls(text, is_final) ==
    IF is_final
    THEN <<Call("print", <<"--Final--\n", text, "\n---\n">>, FALSE, NoBatch)>>
    ELSE <<>>

\* Lines 182-198: the calls made for a response that passed the test.
CallsFor(resp, ret) ==
    LET result == resp.results[1]
    IN  IF result.alternatives = <<>> THEN <<>>
        ELSE LET text == result.alternatives[1].transcript
                 batch == BatchOf(text, result.is_final, ret)
             IN  BatcherCalls(text, result.is_final, ret)
                     \o ProcessCalls(batch, result.is_final)
                     \o PrintCalls(text, result.is_final)

RespInit(batchers) ==
    /\ has_batcher \in batchers
    /\ response = [results |-> <<>>]
    /\ entered = FALSE
    /\ effects = <<>>
    /\ nhandled = 0

\* Lines 177-198: the loop body for the next response of the stream.
HandleResponse ==
    /\ nhandled < MaxResponses
    /\ \E resp \in Responses :
          \E ret \in BatchReturns(IF resp.results # <<>> /\ resp.results[1].alternatives # <<>>
                                  THEN resp.results[1].alternatives[1].transcript
                                  ELSE "") :
             /\ response' = resp
             /\ entered' = ShouldProcess(resp)
             /\ effects' = IF ShouldProcess(resp) THEN CallsFor(resp, ret) ELSE <<>>
    /\ nhandled' = nhandled + 1
    /\ UNCHANGED has_batcher

(***************************************************************************)
(* SpeechRecognizer.transcribe starts at line 153; no call is running in   *)
(* the specifications of the single components.                            *)
(***************************************************************************)
TrInit(pc) == tr_pc = pc

(***************************************************************************)
(* audio_int2float and audio_float2int (utils.py, lines 24-57).            *)
(*                                                                         *)
(* A float32 is kept as [m, e], the value m * 2^e with |m| < 2^24.  Both   *)
(* functions scale by abs_max = 2 ** (bits - 1), a power of two, which in  *)
(* binary floating point only moves the exponent.                          *)
(***************************************************************************)
\* np.iinfo(np.int16).bits
int16_bits == 16
\* significand width of np.float32
float32_mantissa == 24

\* np.iinfo(int_type).min and .max
IntMin(bits) == -(2 ^ (bits - 1))
IntMax(bits) == 2 ^ (bits - 1) - 1

Abs(n) == IF n < 0 THEN -n ELSE n

\* data.astype(float_type) of an integer that fits the significand
AsFloat(n) == [m |-> n, e |-> 0]

\* float * 2^k (k >= 0) and float / 2^(-k) (k < 0)
FloatScale(f, k) == [m |-> f.m, e |-> f.e + k]

\* f < n and f > n for an integer n
FloatLess(f, n) == IF f.e >= 0 THEN f.m * 2 ^ f.e < n ELSE f.m < n * 2 ^ (-f.e)
FloatGreater(f, n) == IF f.e >= 0 THEN f.m * 2 ^ f.e > n ELSE f.m > n * 2 ^ (-f.e)

\* ndarray.clip(lo, hi)
FloatClip(f, lo, hi) ==
    IF FloatLess(f, lo) THEN AsFloat(lo)
    ELSE IF FloatGreater(f, hi) THEN AsFloat(hi)
    ELSE f

\* ndarray.astype(int_type) of a float within the type's range: truncation
\* toward zero
FloatToInt(f) ==
    IF f.e >= 0 THEN f.m * 2 ^ f.e
    ELSE IF f.m >= 0 THEN f.m \div 2 ^ (-f.e)
    ELSE -((-f.m) \div 2 ^ (-f.e))

\* Lines 51-52: data.astype(float_type) / abs_max
audio_int2float(samples, bits) == FloatScale(AsFloat(samples), -(bits - 1))

\* Variant of audio_float2int: abs_max = 2 ** bits.
audio_float2int_full_range(samples, bits) ==
    FloatToInt(FloatClip(FloatScale(samples, bits), IntMin(bits), IntMax(bits)))
\* Lines 31-33: (data * abs_max).clip(int_info.min, int_info.max).astype(int_type)
audio_float2int(samples, bits) ==
    FloatToInt(FloatClip(FloatScale(samples, bits - 1), IntMin(bits), IntMax(bits)))

\* Every value of the integer type.
IntSamples(bits) == IntMin(bits)..IntMax(bits)

ConvInit(inputs) ==
    conv \in {[pc |-> "int", x |-> x, f |-> AsFloat(0), y |-> 0] : x \in inputs}

\* The sample is converted to float ...
ConvToFloat ==
    /\ conv.pc = "int"
    /\ conv' = [conv EXCEPT !.pc = "float", !.f = audio_int2float(conv.x, int16_bits)]

\* ... and back.
ConvToInt ==
    /\ conv.pc = "float"
    /\ conv' = [conv EXCEPT !.pc = "back", !.y = audio_float2int(conv.f, int16_bits)]

(***************************************************************************)
(* The specifications, one per component.                                  *)
(***************************************************************************)
InitVad ==
    VadInit(VadScenarios) /\ StreamInit /\ RespInit({FALSE}) /\ TrInit("idle")
        /\ ConvInit({0})
NextVad ==
    \/ VadFrame /\ UNCHANGED <<streamVars, respVars, trVars, convVars>>
    \/ VadYieldNone /\ UNCHANGED <<streamVars, respVars, trVars, convVars>>
    \/ VadClear /\ UNCHANGED <<streamVars, respVars, trVars, convVars>>
    \/ VadSourceEnd /\ UNCHANGED <<streamVars, respVars, trVars, convVars>>
SpecVad == InitVad /\ [][NextVad]_vars

InitStream ==
    VadInit({DefaultScenario}) /\ StreamInit /\ RespInit({FALSE}) /\ TrInit("idle")
        /\ ConvInit({0})
NextStream ==
    \/ EnterOpen /\ UNCHANGED <<vadVars, respVars, trVars, convVars>>
    \/ EnterDone /\ UNCHANGED <<vadVars, respVars, trVars, convVars>>
    \/ ExitStop /\ UNCHANGED <<vadVars, respVars, trVars, convVars>>
    \/ ExitSetClosed /\ UNCHANGED <<vadVars, respVars, trVars, convVars>>
    \/ ExitPutNone /\ UNCHANGED <<vadVars, respVars, trVars, convVars>>
    \/ ExitTerminate /\ UNCHANGED <<vadVars, respVars, trVars, convVars>>
    \/ FillBuffer /\ UNCHANGED <<vadVars, respVars, trVars, convVars>>
    \/ PullStart /\ UNCHANGED <<vadVars, respVars, trVars, convVars>>
    \/ PullReturned /\ UNCHANGED <<vadVars, respVars, trVars, convVars>>
    \/ StreamWhile /\ UNCHANGED <<vadVars, respVars, trVars, convVars>>
    \/ StreamGet /\ UNCHANGED <<vadVars, respVars, trVars, convVars>>
    \/ StreamDrain /\ UNCHANGED <<vadVars, respVars, trVars, convVars>>
SpecStream == InitStream /\ [][NextStream]_vars

\* The consumer's thread and the owner's thread keep running: a step of
\* stream() that can be taken is taken, and an __exit__ that was called
\* runs to its end.
FairSpecStream ==
    /\ SpecStream
    /\ WF_vars(ConsumerStep /\ UNCHANGED <<vadVars, respVars, trVars, convVars>>)
    /\ WF_vars(ExitStep /\ UNCHANGED <<vadVars, respVars, trVars, convVars>>)

InitResp ==
    VadInit({DefaultScenario}) /\ StreamInit /\ RespInit(BOOLEAN) /\ TrInit("idle")
        /\ ConvInit({0})
NextResp ==
    \/ HandleResponse /\ UNCHANGED <<vadVars, streamVars, trVars, convVars>>
SpecResp == InitResp /\ [][NextResp]_vars

(***************************************************************************)
(* Properties of vad_collector, checked under SpecVad.                     *)
(***************************************************************************)
\* The call has the default parameters N = 20, r = 0.9.
DefaultParams ==
    /\ vcfg.N = num_padding_frames
    /\ vcfg.num = act_inact_ratio_num
    /\ vcfg.den = act_inact_ratio_den

\* The frames lo..hi were all classified as speech.
SpeechRun(lo, hi) == \A k \in lo..hi : cls[k]

\* s begins with p.
IsPrefix(p, s) == Len(p) <= Len(s) /\ \A k \in 1..Len(p) : s[k] = p[k]

\* The segment yielded last.
LastSegment == vad_out[Len(vad_out)].bytes

\* C1 as stated: with N = 20 and r = 0.9, SILENT and an empty ring, 18
\* consecutive speech frames put the engine in VOICED when the 18th is
\* consumed, and the segment yielded later begins with those 18 frames.
C1_TriggersAt18 ==
    DefaultParams =>
        /\ (nread - silentFrom = 18 /\ SpeechRun(silentFrom + 1, nread))
              => triggered
        /\ (vad_pc = "yielded_segment" /\ nread >= silentFrom + 18
                /\ SpeechRun(silentFrom + 1, silentFrom + 18))
              => IsPrefix(Join(FrameRun(silentFrom + 1, silentFrom + 18)), LastSegment)

\* C1 amended: with N = 20 and r = 0.9, SILENT and an empty ring, the engine
\* is still SILENT after 1..18 consecutive speech frames and becomes VOICED
\* exactly when the 19th is consumed (the count must exceed 0.9 * 20 = 18);
\* the segment then holds those 19 frames in order, and the segment yielded
\* later begins with them.
C1_TriggersAt19 ==
    DefaultParams =>
        /\ (nread - silentFrom \in 1..18 /\ SpeechRun(silentFrom + 1, nread))
              => ~triggered /\ voiced_frames = <<>>
        /\ (nread - silentFrom = 19 /\ SpeechRun(silentFrom + 1, nread))
              => /\ triggered
                 /\ voiced_frames = FrameRun(silentFrom + 1, silentFrom + 19)
                 /\ ring_buff = <<>>
        /\ (vad_pc = "yielded_segment" /\ nread >= silentFrom + 19
                /\ SpeechRun(silentFrom + 1, silentFrom + 19))
              => IsPrefix(Join(FrameRun(silentFrom + 1, silentFrom + 19)), LastSegment)

\* C1's case: default parameters, 19 speech frames from the start, and the
\* segment that began with them has just been yielded.
C1_Witness ==
    /\ DefaultParams
    /\ vad_pc = "yielded_segment"
    /\ silentFrom = 0
    /\ nread >= 19
    /\ SpeechRun(1, 19)

\* C2: the output alternates segment, None, segment, None, ... starting with
\* a segment; every segment holds at least one frame; and there is exactly
\* one None per VOICED -> SILENT transition (the None of the last transition
\* is still to come while the generator is suspended after the segment).
C2_OneMarkerPerTransition ==
    /\ \A k \in 1..Len(vad_out) :
          IF k % 2 = 1
          THEN ~vad_out[k].none /\ Len(vad_out[k].bytes) >= 1
          ELSE vad_out[k].none
    /\ Cardinality({k \in 1..Len(vad_out) : vad_out[k].none})
          = IF vad_pc = "yielded_segment" THEN nVS - 1 ELSE nVS
    /\ Cardinality({k \in 1..Len(vad_out) : ~vad_out[k].none}) = nVS

\* C2's case: two VOICED -> SILENT transitions, both markers yielded.
C2_Witness ==
    /\ nVS = 2
    /\ Len(vad_out) = 4
    /\ vad_out[4].none

(***************************************************************************)
(* Properties of AudioStreamer, checked under SpecStream (C5: under        *)
(* FairSpecStream).                                                        *)
(***************************************************************************)
\* Every byte pushed so far, in push order.
Pushed == Join(FrameRun(1, npushed))

\* C3: under every interleaving of _fill_buffer and stream(), the chunks
\* yielded so far, concatenated, are a prefix of the frames pushed, in push
\* order.
C3_ChunksArePrefixOfPushed == IsPrefix(Join(chunks), Pushed)

\* C3's case: several chunks were yielded, one of them coalesced from two
\* frames.
C3_Witness ==
    /\ Len(chunks) = 2
    /\ Len(Join(chunks)) = MaxPush

\* C4 as stated: when stream() signals end-of-stream after a close(), every
\* frame pushed (all pushes precede close(): the device is stopped first) has
\* been yielded in some chunk.
C4_NoFrameLost == eos \in {"closed", "sentinel"} => Join(chunks) = Pushed

\* C5: a consumer blocked in get() on the empty queue when close() runs is
\* released: that pull ends in end-of-stream.
C5_BlockedPullReleased ==
    \A n \in 1..(MaxPulls + 1) :
        (gen_pc = "get" /\ buff = <<>> /\ own_pc = "exit_stopped" /\ pull.n = n)
            ~> (gen_pc = "returned" /\ pull.n = n /\ pull.state = "eos")

\* C5's case: the pull was blocked on the empty queue when __exit__ was
\* called, and has returned end-of-stream.
C5_Witness ==
    /\ pull.blocked
    /\ gen_pc = "returned"
    /\ pull.state = "eos"
    /\ eos = "sentinel"

\* C6 as stated: however often __exit__ is called, one sentinel is enqueued
\* in total.
C6_SingleSentinel == exitCalls >= 1 => sentinels = 1

\* C7: a pull that starts after close() has completed touches the queue
\* never (so it cannot block), yields no chunk and ends in end-of-stream; if
\* it is the first pull, the sequence of chunks is empty.
C7_PullAfterCloseIsEos ==
    pull.afterClose =>
        /\ \/ gen_pc = "while" /\ pull.state = "running"
           \/ gen_pc = "returned" /\ pull.state = "eos"
        /\ pull.gets = 0
        /\ pull.n = 1 => chunks = <<>>

\* C7's case: close() completed before any frame was pushed and before the
\* first pull; the first and the second pull both ended in end-of-stream.
C7_Witness ==
    /\ pull.afterClose
    /\ pull.n = 2
    /\ pull.state = "eos"
    /\ npushed = 0
    /\ eos = "closed"

(***************************************************************************)
(* Properties of _handle_responses, checked under SpecResp.                *)
(***************************************************************************)
\* The calls of one kind made for the response handled last.
CallsTo(op) == SelectSeq(effects, LAMBDA c : c.op = op)

\* C8: a response passes the test iff it has a result and either more than
\* one result or a final first result; a response with no result, or with
\* exactly one result that is not final, causes no call to the batcher, none
\* to the batch processor and no output.
C8_OnlyQualifyingResponsesProcessed ==
    nhandled >= 1 =>
        LET n == Len(response.results)
        IN  /\ n = 0 => ~entered /\ effects = <<>>
            /\ (n = 1 /\ ~response.results[1].is_final) => ~entered /\ effects = <<>>
            /\ (n = 1 /\ response.results[1].is_final) => entered
            /\ n > 1 => entered

\* C8's case: a single non-final result with a transcript, and a batcher
\* that would have been called, was ignored.
C8_Witness ==
    /\ nhandled >= 1
    /\ has_batcher
    /\ Len(response.results) = 1
    /\ ~response.results[1].is_final
    /\ response.results[1].alternatives # <<>>
    /\ effects = <<>>

\* C9 as stated: with no batcher, a processed response whose first result is
\* final causes exactly one call process([text], reset=True), text being the
\* first result's text; one whose first result is not final causes no call
\* to the batch processor.
C9_FinalAlwaysProcessed ==
    (nhandled >= 1 /\ ~has_batcher /\ entered) =>
        LET result == response.results[1]
        IN  IF result.is_final
            THEN /\ Len(CallsTo("process")) = 1
                 /\ result.alternatives # <<>>
                 /\ CallsTo("process")[1].args = <<result.alternatives[1].transcript>>
                 /\ CallsTo("process")[1].reset
            ELSE CallsTo("process") = <<>>

\* C9 amended: with no batcher, a processed response whose first result is
\* final and has at least one alternative causes exactly one call
\* process([text], reset=True), text being the first alternative's
\* transcript; one whose first result is not final, or has no alternative,
\* causes no call to the batch processor.
C9_FinalWithAlternativeProcessed ==
    (nhandled >= 1 /\ ~has_batcher /\ entered) =>
        LET result == response.results[1]
        IN  IF result.is_final /\ result.alternatives # <<>>
            THEN /\ Len(CallsTo("process")) = 1
                 /\ CallsTo("process")[1].args = <<result.alternatives[1].transcript>>
                 /\ CallsTo("process")[1].reset
            ELSE CallsTo("process") = <<>>

\* C9's case: no batcher, one final result "hello": process(["hello"], True).
C9_Witness ==
    /\ nhandled >= 1
    /\ ~has_batcher
    /\ entered
    /\ Len(response.results) = 1
    /\ response.results[1].is_final
    /\ response.results[1].alternatives # <<>>
    /\ response.results[1].alternatives[1].transcript = "hello"
    /\ Len(CallsTo("process")) = 1
    /\ CallsTo("process")[1].args = <<"hello">>

\* What C10 says of a processed response whose first result has the given
\* text: one get_batch(text, reset=is_final); process(batch, reset=is_final)
\* once if the batch returned is non-empty, and not at all otherwise.
BatcherContract(text, is_final) ==
    /\ Len(CallsTo("get_batch")) = 1
    /\ CallsTo("get_batch")[1].args = <<text>>
    /\ CallsTo("get_batch")[1].reset = is_final
    /\ LET ret == CallsTo("get_batch")[1].ret
       IN  IF ~ret.none /\ ret.items # <<>>
           THEN /\ Len(CallsTo("process")) = 1
                /\ CallsTo("process")[1].args = ret.items
                /\ CallsTo("process")[1].reset = is_final
           ELSE CallsTo("process") = <<>>

\* C10 as stated: with a batcher, every processed response causes exactly one
\* get_batch call and forwards exactly the non-empty batches.
C10_EveryProcessedResponseBatched ==
    (nhandled >= 1 /\ has_batcher /\ entered) =>
        LET result == response.results[1]
        IN  /\ result.alternatives # <<>>
            /\ BatcherContract(result.alternatives[1].transcript, result.is_final)

\* C10 amended: with a batcher, every processed response whose first result
\* has at least one alternative causes exactly one get_batch call and
\* forwards exactly the non-empty batches; a processed response whose first
\* result has no alternative causes no call at all.
C10_ResponseWithAlternativeBatched ==
    (nhandled >= 1 /\ has_batcher /\ entered) =>
        LET result == response.results[1]
        IN  IF result.alternatives # <<>>
            THEN BatcherContract(result.alternatives[1].transcript, result.is_final)
            ELSE effects = <<>>

\* C10's case: the batcher returned the empty list for a non-final first
\* result, and nothing was forwarded.
C10_Witness ==
    /\ nhandled >= 1
    /\ has_batcher
    /\ entered
    /\ ~response.results[1].is_final
    /\ Len(CallsTo("get_batch")) = 1
    /\ ~CallsTo("get_batch")[1].ret.none
    /\ CallsTo("get_batch")[1].ret.items = <<>>
    /\ CallsTo("process") = <<>>

\* str(n) for a natural number n, as print() shows it.
DecimalDigits == <<"0", "1", "2", "3", "4", "5", "6", "7", "8", "9">>

RECURSIVE DecimalText(_)
DecimalText(n) ==
    IF n < 10 THEN DecimalDigits[n + 1]
    ELSE DecimalText(n \div 10) \o DecimalDigits[(n % 10) + 1]

\* The values a recorded call was given.
ArgsOf(call) == {call.args[k] : k \in 1..Len(call.args)}

\* C11 as stated (for a first result that has an alternative): a processed
\* response whose first result is final prints the transcript and the
\* integer confidence int(100 * confidence), e.g. 87 for 0.87; one whose
\* first result is not final prints nothing.
C11_FinalSurfacesTranscriptAndConfidence ==
    (nhandled >= 1 /\ entered /\ response.results[1].alternatives # <<>>) =>
        LET result == response.results[1]
            alternative == result.alternatives[1]
        IN  IF result.is_final
            THEN /\ Len(CallsTo("print")) = 1
                 /\ alternative.transcript \in ArgsOf(CallsTo("print")[1])
                 /\ DecimalText(Confidence(alternative.confidence))
                        \in ArgsOf(CallsTo("print")[1])
            ELSE CallsTo("print") = <<>>

(***************************************************************************)
(* SpeechRecognizer.transcribe (SpeechRecognizer.py, lines 153-173).       *)
(*                                                                         *)
(* transcribe() owns one AudioStreamer through a with statement: the       *)
(* owner's steps are those of __enter__ and __exit__ above, taken in the   *)
(* order the with statement gives them.  The recognition client iterates   *)
(* stream() on its own thread once streaming_recognize was called.  The    *)
(* device's open(), streaming_recognize and _handle_responses are          *)
(* external or may raise: each either succeeds or raises.                  *)
(***************************************************************************)
\* Lines 155-157, 35-48: __enter__ opens the device stream.
TrEnterOpen ==
    /\ tr_pc = "start"
    /\ EnterOpen
    /\ UNCHANGED tr_pc

\* Lines 35-48: PyAudio() was created and open() raises.  __enter__ did not
\* return, so the with statement does not call __exit__, and the exception
\* leaves transcribe().
TrEnterOpenRaises ==
    /\ tr_pc = "start"
    /\ own_pc = "init"
    /\ dev' = "interface"
    /\ own_pc' = "enter_raised"
    /\ tr_pc' = "raised"
    /\ UNCHANGED <<closed, buff, gen_pc, data, chunks, npushed, exitCalls,
                   sentinels, pull, eos>>

\* Lines 50-52: __enter__ returns; the body of the with statement begins.
TrEnterDone ==
    /\ tr_pc = "start"
    /\ EnterDone
    /\ tr_pc' = "body"

\* Lines 159-170: the request generator is made and streaming_recognize is
\* called; it returns the responses or raises.
TrRecognize ==
    /\ tr_pc = "body"
    /\ tr_pc' \in {"handling", "leaving_raised"}
    /\ UNCHANGED streamVars

\* Line 173: _handle_responses returns when the responses end, or raises.
TrHandle ==
    /\ tr_pc = "handling"
    /\ tr_pc' \in {"leaving_ok", "leaving_raised"}
    /\ UNCHANGED streamVars

\* Lines 157, 55-56: the with statement calls __exit__ when its body is left.
TrExitStop ==
    /\ tr_pc \in {"leaving_ok", "leaving_raised"}
    /\ own_pc = "entered"
    /\ ExitStop
    /\ UNCHANGED tr_pc

\* Line 61: __exit__ returns; transcribe() returns, or the exception of its
\* body goes on.
TrExitTerminate ==
    /\ ExitTerminate
    /\ tr_pc' = IF tr_pc = "leaving_ok" THEN "returned" ELSE "raised"

\* The client starts to iterate the requests once streaming_recognize has
\* them.
TrPullStart ==
    /\ tr_pc \notin {"start", "body"}
    /\ PullStart
    /\ UNCHANGED tr_pc

InitTranscribe ==
    VadInit({DefaultScenario}) /\ StreamInit /\ RespInit({FALSE}) /\ TrInit("start")
        /\ ConvInit({0})
NextTranscribe ==
    \/ TrEnterOpen /\ UNCHANGED <<vadVars, respVars, convVars>>
    \/ TrEnterOpenRaises /\ UNCHANGED <<vadVars, respVars, convVars>>
    \/ TrEnterDone /\ UNCHANGED <<vadVars, respVars, convVars>>
    \/ TrRecognize /\ UNCHANGED <<vadVars, respVars, convVars>>
    \/ TrHandle /\ UNCHANGED <<vadVars, respVars, convVars>>
    \/ TrExitStop /\ UNCHANGED <<vadVars, respVars, convVars>>
    \/ ExitSetClosed /\ UNCHANGED <<vadVars, respVars, trVars, convVars>>
    \/ ExitPutNone /\ UNCHANGED <<vadVars, respVars, trVars, convVars>>
    \/ TrExitTerminate /\ UNCHANGED <<vadVars, respVars, convVars>>
    \/ FillBuffer /\ UNCHANGED <<vadVars, respVars, trVars, convVars>>
    \/ TrPullStart /\ UNCHANGED <<vadVars, respVars, convVars>>
    \/ PullReturned /\ UNCHANGED <<vadVars, respVars, trVars, convVars>>
    \/ StreamWhile /\ UNCHANGED <<vadVars, respVars, trVars, convVars>>
    \/ StreamGet /\ UNCHANGED <<vadVars, respVars, trVars, convVars>>
    \/ StreamDrain /\ UNCHANGED <<vadVars, respVars, trVars, convVars>>
SpecTranscribe == InitTranscribe /\ [][NextTranscribe]_vars

(***************************************************************************)
(* Properties of transcribe, checked under SpecTranscribe.                 *)
(***************************************************************************)
\* C12 as stated: however transcribe() ends (also when the device cannot be
\* opened, the recognition stream fails or response handling fails), the
\* device stream is stopped and closed, the buffer is closed with its
\* sentinel enqueued, and the device interface is released.
C12_ReleasedOnEveryExit ==
    tr_pc \in {"returned", "raised"} =>
        /\ dev = "terminated"
        /\ closed
        /\ sentinels >= 1

(***************************************************************************)
(* Further properties of vad_collector, checked under SpecVad.             *)
(***************************************************************************)
\* C13: the ring buffer never holds more than N = num_padding_frames entries,
\* and an insertion into a full ring evicts the oldest entry: the ring always
\* holds the most recent frames taken, in order, without a gap.
C13_RingBoundedSlidingWindow ==
    /\ Len(ring_buff) <= vcfg.N
    /\ RingFrames(ring_buff) = FrameRun(nread - Len(ring_buff) + 1, nread)
    /\ \A k \in 1..Len(ring_buff) : ring_buff[k].s = cls[nread - Len(ring_buff) + k]

\* SILENT with a full ring that has already evicted its oldest entries.
C13_Witness ==
    /\ ~triggered
    /\ vad_pc = "loop"
    /\ Len(ring_buff) = vcfg.N
    /\ nread - silentFrom >= vcfg.N + 2
    /\ ring_buff[1].f = Frame(nread - vcfg.N + 1)

(***************************************************************************)
(* vad_collector from its call on (utils.py, lines 60-75), for parameters  *)
(* outside their intended ranges.  The function is a generator: lines      *)
(* 73-75 run when it is first resumed.  The source has no check of its     *)
(* parameters; deque(maxlen=n) raises ValueError for n < 0 and accepts 0.  *)
(***************************************************************************)
\* Calls with num_padding_frames <= 0 or act_inact_ratio outside (0, 1).
InvalidScenarios ==
    { [N |-> n, num |-> act_inact_ratio_num, den |-> act_inact_ratio_den,
       frames |-> MaxFrames, flips |-> MaxFrames] : n \in {0, -1} }
    \cup
    { [N |-> 2, num |-> r[1], den |-> r[2], frames |-> MaxFrames, flips |-> MaxFrames] :
         r \in {<<3, 2>>, <<1, 1>>, <<0, 1>>, <<-1, 2>>} }

\* Lines 60-67: the generator object exists, its body has not begun.
VadCalled(scenarios) ==
    /\ vcfg \in scenarios
    /\ ring_buff = <<>>
    /\ triggered = FALSE
    /\ voiced_frames = <<>>
    /\ vad_out = <<>>
    /\ vad_pc = "start"
    /\ nread = 0
    /\ cls = <<>>
    /\ nVS = 0
    /\ silentFrom = 0
    /\ segFrom = 0

\* Lines 73-75: first resumption; deque(maxlen=num_padding_frames) raises
\* for a negative maxlen, otherwise the loop is reached.
VadStart ==
    /\ vad_pc = "start"
    /\ vad_pc' = IF vcfg.N < 0 THEN "error" ELSE "loop"
    /\ UNCHANGED <<vcfg, ring_buff, triggered, voiced_frames, vad_out, nread,
                   cls, nVS, silentFrom, segFrom>>

InitVadConfig ==
    VadCalled(InvalidScenarios) /\ StreamInit /\ RespInit({FALSE}) /\ TrInit("idle")
        /\ ConvInit({0})
NextVadConfig ==
    \/ VadStart /\ UNCHANGED <<streamVars, respVars, trVars, convVars>>
    \/ VadFrame /\ UNCHANGED <<streamVars, respVars, trVars, convVars>>
    \/ VadYieldNone /\ UNCHANGED <<streamVars, respVars, trVars, convVars>>
    \/ VadClear /\ UNCHANGED <<streamVars, respVars, trVars, convVars>>
    \/ VadSourceEnd /\ UNCHANGED <<streamVars, respVars, trVars, convVars>>
SpecVadConfig == InitVadConfig /\ [][NextVadConfig]_vars

InvalidParams(cfg) == cfg.N <= 0 \/ cfg.num <= 0 \/ cfg.num >= cfg.den

\* C14 as stated: with num_padding_frames <= 0 or act_inact_ratio outside
\* (0, 1) the call ends in an error before any frame is classified and
\* before any output is produced.
C14_InvalidParametersFailFast ==
    InvalidParams(vcfg) =>
        /\ nread = 0
        /\ vad_out = <<>>

(***************************************************************************)
(* The round trip of the conversions, over every int16 sample.             *)
(***************************************************************************)
InitConv ==
    VadInit({DefaultScenario}) /\ StreamInit /\ RespInit({FALSE}) /\ TrInit("idle")
        /\ ConvInit(IntSamples(int16_bits))
NextConv ==
    \/ ConvToFloat /\ UNCHANGED <<vadVars, streamVars, respVars, trVars>>
    \/ ConvToInt /\ UNCHANGED <<vadVars, streamVars, respVars, trVars>>
SpecConv == InitConv /\ [][NextConv]_vars

\* C15: for every int16 sample x, audio_float2int(audio_int2float(x)) differs
\* from x by at most 1, the range ends -32768 and 32767 included; the float in
\* between lies in [-1, 1) and fits a float32 significand.
C15_RoundTripWithinOneLsb ==
    /\ conv.pc \in {"float", "back"} =>
          /\ Abs(conv.f.m) < 2 ^ float32_mantissa
          /\ ~FloatLess(conv.f, -1)
          /\ FloatLess(conv.f, 1)
    /\ conv.pc = "back" => Abs(conv.y - conv.x) <= 1

\* The lower range end has made the round trip.
C15_Witness ==
    /\ conv.pc = "back"
    /\ conv.x = IntMin(int16_bits)
    /\ conv.y = conv.x

\* The bytes of every segment yielded so far, in order.
SegmentBytes == Join([k \in 1..Len(vad_out) |-> vad_out[k].bytes])

\* C16: each segment is one contiguous run of source frames, each once: the
\* frames the ring held at SILENT -> VOICED (segFrom is the oldest of them,
\* the triggering frame the newest), then every frame taken while VOICED up
\* to the frame that triggers VOICED -> SILENT.  After emission and
\* resumption the ring and the segment are empty, and no frame is in two
\* segments.
C16_SegmentIsOneContiguousRun ==
    /\ triggered => voiced_frames = FrameRun(segFrom, nread)
    /\ vad_pc \in {"yielded_segment", "yielded_none"} =>
          /\ voiced_frames = FrameRun(segFrom, nread)
          /\ vad_out[IF vad_pc = "yielded_segment" THEN Len(vad_out)
                     ELSE Len(vad_out) - 1].bytes = Join(FrameRun(segFrom, nread))
    /\ (triggered \/ vad_pc \in {"yielded_segment", "yielded_none"}) =>
          /\ segFrom > silentFrom
          /\ segFrom <= nread
    /\ (~triggered /\ vad_pc \in {"loop", "done"}) =>
          /\ voiced_frames = <<>>
          /\ Len(ring_buff) <= nread - silentFrom
    /\ \A k \in 1..(Len(SegmentBytes) - 1) : SegmentBytes[k] < SegmentBytes[k + 1]

\* The second segment has just been yielded; it begins after frames that
\* were dropped in SILENT.
C16_Witness ==
    /\ vad_pc = "yielded_segment"
    /\ nVS = 2
    /\ segFrom > silentFrom + 1
    /\ LastSegment = Join(FrameRun(segFrom, nread))

(***************************************************************************)
(* Further properties of AudioStreamer.stream, checked under SpecStream.   *)
(***************************************************************************)
\* Frames handed to the consumer so far (a frame is one byte).
NumYielded == Len(Join(chunks))

\* C17: a successful pull returns one chunk, the concatenation in arrival
\* order of the first available frame and of every frame the non-blocking
\* reads found after it; it returns only when a non-blocking read found the
\* queue empty; the blocking get() is reached once per pull, before any
\* frame was taken (every later read is non-blocking).
C17_PullCoalescesQueuedFrames ==
    /\ [](/\ gen_pc = "get" => pull.gets = 0 /\ pull.state = "running"
          /\ gen_pc = "drain" =>
                /\ pull.gets = Len(data)
                /\ Len(data) >= 1
                /\ data = FrameRun(NumYielded + 1, NumYielded + Len(data))
          /\ pull.state = "chunk" =>
                /\ gen_pc = "yielded"
                /\ pull.gets = Len(data)
                /\ chunks # <<>>
                /\ chunks[Len(chunks)] = Join(data))
    /\ [][chunks' # chunks =>
            /\ gen_pc = "drain"
            /\ buff = <<>>
            /\ chunks' = Append(chunks, Join(data))
            /\ data' = data]_vars

\* A pull has returned a chunk made of several frames.
C17_Witness ==
    /\ pull.state = "chunk"
    /\ pull.gets >= 3
    /\ chunks[Len(chunks)] = Join(FrameRun(NumYielded - 2, NumYielded))

\* C18: when the source ends while the engine is VOICED, the accumulated
\* segment is not emitted and no marker is emitted for it: the output is
\* what the completed VOICED -> SILENT transitions produced (a segment and a
\* marker each), none of the accumulated frames is in it, and the generator
\* has terminated.
C18_NoFlushAtSourceEnd ==
    (vad_pc = "done" /\ triggered) =>
        /\ Len(vad_out) = 2 * nVS
        /\ voiced_frames = FrameRun(segFrom, nread)
        /\ voiced_frames # <<>>
        /\ \A k \in 1..Len(SegmentBytes) : SegmentBytes[k] < segFrom
        /\ ~ENABLED VadFrame
        /\ ~ENABLED VadYieldNone
        /\ ~ENABLED VadClear

\* The source ended during the second voiced stretch: one segment and one
\* marker were produced, the second stretch is lost.
C18_Witness ==
    /\ vad_pc = "done"
    /\ triggered
    /\ nVS = 1
    /\ Len(vad_out) = 2
    /\ Len(voiced_frames) >= 2

\* The ring as the frame taken in this step found it, with that frame added.
RingWithNewFrame ==
    LET all == Append(ring_buff, [f |-> Frame(nread + 1), s |-> cls'[nread + 1]])
        drop == IF Len(all) > vcfg.N THEN Len(all) - vcfg.N ELSE 0
    IN  SubSeq(all, drop + 1, Len(all))

\* C19: both thresholds compare a count with r * N, N the configured
\* capacity, never with r * (entries in the ring): a frame taken in SILENT
\* moves the engine to VOICED exactly when the speech entries in the ring
\* exceed r * N, a frame taken in VOICED moves it to SILENT exactly when the
\* non-speech entries exceed r * N, whatever the ring's occupancy.
C19_ThresholdUsesCapacity ==
    [][nread' = nread + 1 =>
          /\ ~triggered =>
                (triggered' <=>
                    CountSpeech(RingWithNewFrame, TRUE) * vcfg.den > vcfg.num * vcfg.N)
          /\ triggered =>
                (~triggered' <=>
                    CountSpeech(RingWithNewFrame, FALSE) * vcfg.den > vcfg.num * vcfg.N)]_vars

\* SILENT with a partly filled ring whose speech entries exceed r times the
\* occupancy: the engine has not triggered.
C19_Witness ==
    /\ ~triggered
    /\ vad_pc = "loop"
    /\ Len(ring_buff) >= 2
    /\ Len(ring_buff) < vcfg.N
    /\ nread = silentFrom + Len(ring_buff)
    /\ CountSpeech(ring_buff, TRUE) * vcfg.den > vcfg.num * Len(ring_buff)

\* floor(r * N) + 1, the least count that exceeds r * N.
MinRun(cfg) == (cfg.num * cfg.N) \div cfg.den + 1

\* C20: at least floor(r * N) + 1 frames are taken between the start or a
\* transition and the next transition (the ring is empty after each and
\* must hold that many entries to trigger), so every segment yielded holds
\* at least 2 * (floor(r * N) + 1) frames.
C20_MinimumSegmentLength ==
    /\ [](\A k \in 1..Len(vad_out) :
             ~vad_out[k].none => Len(vad_out[k].bytes) >= 2 * MinRun(vcfg))
    /\ [][/\ (~triggered /\ triggered') =>
                /\ nread' - silentFrom >= MinRun(vcfg)
                /\ Len(voiced_frames') >= MinRun(vcfg)
          /\ (triggered /\ ~triggered') =>
                /\ Len(ring_buff') >= MinRun(vcfg)
                /\ nread' - segFrom + 1 >= 2 * MinRun(vcfg)]_vars

\* With the default parameters a segment of exactly 2 * 19 frames was
\* yielded.
C20_Witness ==
    /\ DefaultParams
    /\ vad_pc = "yielded_segment"
    /\ nVS = 1
    /\ Len(LastSegment) = 2 * MinRun(vcfg)

====
